---- MODULE Spec2Model ----
(***************************************************************************)
(* rget (src/src/main.rs): download_file, download_single_threaded,        *)
(* download_chunk_with_retry and the tail of main, as a state machine.     *)
(*                                                                         *)
(* The orchestrator (download_file, then main's match) and every spawned   *)
(* tokio task are processes; a step is the code between two await points.  *)
(* The server, the transport and the file system are the environment:      *)
(* every outcome an await can produce is a nondeterministic choice.        *)
(*                                                                         *)
(* Bytes are not enumerated one by one (the partitioned path only runs on  *)
(* resources of at least 1 MiB): the destination file is held as a list of *)
(* extents, each saying which bytes of which origin lie at which offsets.  *)
(* The list is kept canonical, so two files are equal exactly when they    *)
(* hold the same bytes at the same offsets.                                *)
(*                                                                         *)
(* Specifications:                                                         *)
(*   Spec         the program from main's call of download_file            *)
(*   FairSpec     Spec under the scheduling of the tokio runtime           *)
(*   EngineSpec   the partitioned path on small sizes                      *)
(*   PlanSpec     the chunk planner in the integers                        *)
(*   U64PlanSpec  the chunk planner in u64, overflow included              *)
(***************************************************************************)
EXTENDS Integers, Sequences, FiniteSets, TLC

(***************************************************************************)
(* Bounds of the model.                                                    *)
(***************************************************************************)
\* Spec: num_threads ranges over 0..MaxThreads.
MaxThreads == 2
\* Spec: the resource sizes at or above the threshold are
\* MinPartitionSize .. MinPartitionSize + MaxExtra.
MaxExtra == 1
\* A response body arrives in at most MaxSegs segments.
MaxSegs == 2
\* EngineSpec: total_size ranges over 0..MaxEngineSize, num_threads over
\* 1..MaxEngineThreads.
MaxEngineSize == 3
MaxEngineThreads == 2
\* PlanSpec: total_size ranges over 0..MaxPlanSize, num_threads over
\* 1..MaxPlanThreads.
MaxPlanSize == 12
MaxPlanThreads == 5

(***************************************************************************)
(* Program constants.                                                      *)
(***************************************************************************)
\* main.rs:76  total_size < 1024 * 1024
MinPartitionSize == 1048576
\* main.rs:120 let max_retries = 3;
max_retries == 3
\* main.rs:128 Duration::from_millis(1000 * (retry + 1))
BackoffUnitMs == 1000
\* main.rs:107: u64::MAX, the value `0 - 1` wraps to in a build without
\* overflow checks.  It is held as its two's-complement representative; the
\* model only stores it (the worker that gets it skips, main.rs:115).
U64Max == -1

Min(a, b) == IF a <= b THEN a ELSE b
Max(a, b) == IF a >= b THEN a ELSE b

(***************************************************************************)
(* The destination file: extents [off, len, kind, at].  The bytes at       *)
(* offsets off .. off+len-1 are                                            *)
(*   kind = "src":  the source resource's bytes at .. at+len-1             *)
(*   kind = "old":  the bytes the file held there before the download      *)
(*   kind = "zero": the zero fill of a write past the end of the file      *)
(* A file is a sequence of extents, ascending, contiguous from offset 0,   *)
(* with no two neighbours that could be one extent.                        *)
(***************************************************************************)
Extent(off, len, kind, at) == [off |-> off, len |-> len, kind |-> kind, at |-> at]

SrcBytes(off, len, at) == Extent(off, len, "src", at)

OldContent(len) == IF len = 0 THEN << >> ELSE << Extent(0, len, "old", 0) >>

FileLen(f) == IF Len(f) = 0 THEN 0 ELSE f[Len(f)].off + f[Len(f)].len

\* The part of extent e inside [a, b).
Clip(e, a, b) ==
    LET lo == Max(e.off, a)
        hi == Min(e.off + e.len, b)
    IN  Extent(lo, hi - lo, e.kind, IF e.kind = "zero" THEN 0 ELSE e.at + (lo - e.off))

\* The bytes of f at offsets [a, b).
Slice(f, a, b) ==
    LET keep == SelectSeq(f, LAMBDA e : Max(e.off, a) < Min(e.off + e.len, b))
    IN  [i \in 1..Len(keep) |-> Clip(keep[i], a, b)]

Joins(e1, e2) ==
    /\ e1.kind = e2.kind
    /\ e1.off + e1.len = e2.off
    /\ (e1.kind = "zero" \/ e1.at + e1.len = e2.at)

RECURSIVE Normalize(_)
Normalize(f) ==
    IF Len(f) <= 1 THEN f
    ELSE LET r == Normalize(Tail(f))
             h == Head(f)
         IN  IF Joins(h, r[1])
             THEN << [h EXCEPT !.len = h.len + r[1].len] >> \o Tail(r)
             ELSE << h >> \o r

\* write_all of len source bytes (from source offset at) with the cursor at pos:
\* the bytes replace what was there, the file grows as needed, and a gap
\* between the old end of the file and pos reads as zeros.
WriteAt(f, pos, len, at) ==
    IF len = 0 THEN f
    ELSE Normalize(
            Slice(f, 0, pos)
            \o (IF pos > FileLen(f)
                THEN << Extent(FileLen(f), pos - FileLen(f), "zero", 0) >>
                ELSE << >>)
            \o << SrcBytes(pos, len, at) >>
            \o Slice(f, pos + len, FileLen(f)))

(***************************************************************************)
(* The chunk planner (main.rs:81, 106, 107), in the integers; the actions  *)
(* that use it decide what the u64 arithmetic does                         *)
(***************************************************************************)
\* main.rs:81  (total_size + num_threads as u64 - 1) / num_threads as u64
ChunkSize(total, n) == (total + n - 1) \div n

\* main.rs:106  i as u64 * chunk_size
RangeStart(i, cs) == i * cs

\* main.rs:107  ((i + 1) as u64 * chunk_size).min(total_size), the minuend of `- 1`
RangeEndExcl(i, cs, total) == Min((i + 1) * cs, total)

\* Mutant of RangeEnd: the end taken as exclusive (the `- 1` left out).
RangeEndExclusive(i, cs, total) == RangeEndExcl(i, cs, total)

\* main.rs:107  ... - 1
RangeEnd(i, cs, total) == RangeEndExcl(i, cs, total) - 1

\* Mutant of UseSingleThread: the threshold compared with <=.
UseSingleThreadAtThreshold(ranges, total, n) ==
    \/ ~ranges
    \/ total <= MinPartitionSize
    \/ n = 1

\* main.rs:76  !supports_ranges || total_size < 1024 * 1024 || num_threads == 1
UseSingleThread(ranges, total, n) ==
    \/ ~ranges
    \/ total < MinPartitionSize
    \/ n = 1

\* Mutant of BackoffMs: the same delay before every attempt.
BackoffFlat(r) == BackoffUnitMs

\* main.rs:128  1000 * (retry + 1)
BackoffMs(r) == BackoffUnitMs * (r + 1)

(***************************************************************************)
(* Values.                                                                 *)
(***************************************************************************)
\* main.rs:97: the mutex when no task holds it (tasks are 0, 1, ...).
NoWorker == -1

\* An anyhow::Result<()>: not yet produced, Ok(()), or Err with the stage that
\* failed, the chunk index (-1 when there is none), the cause and the HTTP
\* status (0 when there is none).
NoResult == [kind |-> "none", stage |-> "", idx |-> -1, cause |-> "", code |-> 0]
OkResult == [kind |-> "ok", stage |-> "", idx |-> -1, cause |-> "", code |-> 0]
Err(stage, idx, cause, code) ==
    [kind |-> "err", stage |-> stage, idx |-> idx, cause |-> cause, code |-> code]

\* Mutant of IsSuccess: every status from 200 up taken as a success.
IsSuccessOrAbove(code) == code >= 200

\* Statuses the server may answer with.  is_success() is 200..299.
IsSuccess(code) == code >= 200 /\ code <= 299
\* main.rs:227  is_success() || status == PARTIAL_CONTENT
RangeStatusAccepted(code) == IsSuccess(code) \/ code = 206
HeadStatuses == {200, 404}
GetStatuses == {200, 503}

\* The lengths the next body segment may have when rem bytes remain and k
\* segments of this body were delivered: all that remains, or about half of it.
SegLens(rem, k) ==
    IF k + 1 >= MaxSegs THEN {rem} ELSE {rem, (rem + 1) \div 2}

VARIABLES
    \* ---- the environment
    srcLen,         \* length of the source resource
    hdrLen,         \* the server sends Content-Length
    hdrRanges,      \* the server sends Accept-Ranges: bytes
    honoursRange,   \* the server answers a Range request with that range
                    \* (otherwise with the whole resource)
    preExists,      \* the destination existed before the download
    preLen,         \* and had this many bytes
    \* ---- main and download_file
    num_threads,    \* args.threads (u8)
    pc,             \* the orchestrator's position
    mode,           \* "undecided", "single" or "partitioned"
    sizeKnown,      \* total_size_opt.is_some()
    total_size,
    supports_ranges,
    chunk_size,
    handlers,       \* the spawned tasks' (start, end), in spawn order
    joined,         \* handlers awaited so far (the join loop's index)
    result,         \* what download_file returned
    exitCode,       \* "running", then how the process ended: "success"
                    \* (main returns Ok), "failure" (exit(1)) or "panic"
    headStatus,     \* the status of the HEAD response (0: none yet)
    \* ---- the tasks, by chunk index
    wpc, retry, sent, seg, nseg, wres, requests, wdelay,
    firstFailed,    \* history: the task that returned an error before any
                    \* other did (NoWorker while none has)
    \* ---- the shared file, its mutex and the progress bar
    lock, filePos, fileExists, file, progress,
    \* ---- download_single_threaded
    gets,           \* GET requests it issued
    downloaded,
    received        \* lengths of the body segments it received, in order

envVars == << srcLen, hdrLen, hdrRanges, honoursRange, preExists, preLen, num_threads >>
orchVars == << pc, mode, sizeKnown, total_size, supports_ranges, chunk_size,
               handlers, joined, result, exitCode, headStatus >>
taskVars == << wpc, retry, sent, seg, nseg, wres, requests, wdelay, firstFailed >>
fileVars == << lock, filePos, fileExists, file, progress >>
singleVars == << gets, downloaded, received >>
vars == << envVars, orchVars, taskVars, fileVars, singleVars >>

Workers == 0 .. (num_threads - 1)
Alive == exitCode = "running"

(***************************************************************************)
(* Initial states.  InitAt gives the state in which download_file is at    *)
(* position at, for a resource of one of the given sizes and one of the    *)
(* given thread counts.                                                    *)
(***************************************************************************)
InitAt(at, sizes, threads) ==
    /\ srcLen \in sizes
    /\ num_threads \in threads
    /\ preExists \in BOOLEAN
    /\ preLen = IF preExists THEN srcLen + 1 ELSE 0
    /\ fileExists = preExists
    /\ file = OldContent(preLen)
    /\ pc = at
    /\ joined = 0
    /\ handlers = << >>
    /\ chunk_size = 0
    /\ result = NoResult
    /\ exitCode = "running"
    /\ headStatus = 0
    /\ wpc = [w \in Workers |-> "unspawned"]
    /\ retry = [w \in Workers |-> 0]
    /\ sent = [w \in Workers |-> 0]
    /\ seg = [w \in Workers |-> 0]
    /\ nseg = [w \in Workers |-> 0]
    /\ wres = [w \in Workers |-> NoResult]
    /\ requests = [w \in Workers |-> 0]
    /\ wdelay = [w \in Workers |-> 0]
    /\ firstFailed = NoWorker
    /\ lock = NoWorker
    /\ filePos = 0
    /\ progress = 0
    /\ gets = 0
    /\ downloaded = 0
    /\ received = << >>

\* main.rs:272: main calls download_file.
SrcSizes ==
    {0, 512000, MinPartitionSize - 1}
        \cup {MinPartitionSize + k : k \in 0..MaxExtra}

Init ==
    /\ InitAt("probe", SrcSizes, 0..MaxThreads)
    /\ hdrLen \in BOOLEAN
    /\ hdrRanges \in BOOLEAN
    /\ honoursRange \in BOOLEAN
    /\ mode = "undecided"
    /\ sizeKnown = FALSE
    /\ total_size = 0
    /\ supports_ranges = FALSE

\* main.rs:81: the partitioned path, entered with any total_size and num_threads.
InitPartitioned(sizes, threads) ==
    /\ InitAt("plan", sizes, threads)
    /\ hdrLen = TRUE
    /\ hdrRanges = TRUE
    /\ honoursRange \in BOOLEAN
    /\ mode = "partitioned"
    /\ sizeKnown = TRUE
    /\ total_size = srcLen
    /\ supports_ranges = TRUE

EngineInit == InitPartitioned(0..MaxEngineSize, 1..MaxEngineThreads)

PlanInit == InitPartitioned(0..MaxPlanSize, 1..MaxPlanThreads)

(***************************************************************************)
(* download_file, main.rs:37-153.                                          *)
(***************************************************************************)
\* Mutant of Return: the result is noted and the function stays where it is.
NoteAndStay(r) ==
    /\ result' = r
    /\ pc' = pc

\* `return r` and `?` on an Err: download_file (or download_single_threaded,
\* whose result download_file returns, main.rs:60, 78) returns r.
Return(r) ==
    /\ result' = r
    /\ pc' = "returned"

\* main.rs:41-79: the HEAD request, its response, and the mode decision.
Probe ==
    /\ Alive /\ pc = "probe"
    /\ \/ \* main.rs:41  send().await? fails
          /\ Return(Err("probe", -1, "transport", 0))
          /\ UNCHANGED << mode, sizeKnown, total_size, supports_ranges, headStatus >>
       \/ \E code \in HeadStatuses :
            /\ headStatus' = code
            /\ IF ~IsSuccess(code)
               THEN \* main.rs:43-48
                    /\ Return(Err("probe", -1, "status", code))
                    /\ UNCHANGED << mode, sizeKnown, total_size, supports_ranges >>
               ELSE \* main.rs:51-79
                    LET size == IF hdrLen THEN srcLen ELSE 0
                        ranges == hdrLen /\ hdrRanges
                    IN  /\ sizeKnown' = hdrLen
                        /\ total_size' = size
                        /\ supports_ranges' = ranges
                        /\ result' = result
                        /\ IF ~hdrLen
                           THEN \* main.rs:58-61
                                mode' = "single" /\ pc' = "single_get"
                           ELSE IF UseSingleThread(ranges, size, num_threads)
                           THEN \* main.rs:76-79
                                mode' = "single" /\ pc' = "single_get"
                           ELSE mode' = "partitioned" /\ pc' = "plan"
    /\ UNCHANGED << envVars, chunk_size, handlers, joined, exitCode,
                    taskVars, fileVars, singleVars >>

\* main.rs:81: the division panics when num_threads is 0.
ComputeChunkSize ==
    /\ Alive /\ pc = "plan"
    /\ IF num_threads = 0
       THEN pc' = "panicked" /\ chunk_size' = chunk_size
       ELSE pc' = "open" /\ chunk_size' = ChunkSize(total_size, num_threads)
    /\ UNCHANGED << envVars, mode, sizeKnown, total_size, supports_ranges,
                    handlers, joined, result, exitCode, headStatus,
                    taskVars, fileVars, singleVars >>

\* main.rs:97-103: create(true).write(true).open(savepath): the file is created
\* when absent and otherwise opened as it is, with the cursor at 0.
OpenForWrite(exists, f) == IF exists THEN f ELSE << >>

OpenFile ==
    /\ Alive /\ pc = "open"
    /\ \/ /\ fileExists' = TRUE
          /\ file' = OpenForWrite(fileExists, file)
          /\ filePos' = 0
          /\ pc' = "spawn"
          /\ result' = result
       \/ /\ Return(Err("open", -1, "io", 0))
          /\ UNCHANGED << fileExists, file, filePos >>
    /\ UNCHANGED << envVars, mode, sizeKnown, total_size, supports_ranges,
                    chunk_size, handlers, joined, exitCode, headStatus,
                    taskVars, lock, progress, singleVars >>

\* main.rs:105-139, one iteration of the loop: the range of chunk i, then the
\* task is spawned.  `min(..) - 1` underflows when the minuend is 0: a build
\* with overflow checks panics there, one without wraps to u64::MAX.
SubOneOutcomes(x) == IF x = 0 THEN {"panic", "wrap"} ELSE {"exact"}

SpawnWorker ==
    /\ Alive /\ pc = "spawn"
    /\ LET i == Len(handlers)
           start == RangeStart(i, chunk_size)
       IN  \E o \in SubOneOutcomes(RangeEndExcl(i, chunk_size, total_size)) :
             IF o = "panic"
             THEN /\ pc' = "panicked"
                  /\ UNCHANGED << handlers, wpc >>
             ELSE /\ handlers' = Append(handlers,
                        [start |-> start,
                         end |-> IF o = "wrap" THEN U64Max
                                 ELSE RangeEnd(i, chunk_size, total_size)])
                  /\ wpc' = [wpc EXCEPT ![i] = "init"]
                  /\ pc' = IF i + 1 = num_threads THEN "join" ELSE "spawn"
    /\ UNCHANGED << envVars, mode, sizeKnown, total_size, supports_ranges,
                    chunk_size, joined, result, exitCode, headStatus,
                    retry, sent, seg, nseg, wres, requests, wdelay, firstFailed,
                    fileVars, singleVars >>

\* Mutant of ReportedChunk: every failure reported as chunk 0's.
ReportedFirstChunk(i) == 0

\* main.rs:142, 145: enumerate() pairs each handler with its chunk index, which
\* the error names.
ReportedChunk(i) == i

\* main.rs:142-152: await the handlers in spawn order; the first error ends the
\* loop, and after the last handler download_file returns Ok.  No statement of
\* a task panics and nothing aborts a task, so the JoinError arm (main.rs:146)
\* has no transition.
JoinNext ==
    /\ Alive /\ pc = "join"
    /\ IF joined = num_threads
       THEN Return(OkResult) /\ joined' = joined
       ELSE /\ wpc[joined] = "done"
            /\ IF wres[joined].kind = "ok"
               THEN /\ joined' = joined + 1
                    /\ UNCHANGED << pc, result >>
               ELSE /\ Return(Err("thread", ReportedChunk(joined),
                                   wres[joined].cause, wres[joined].code))
                    /\ joined' = joined
    /\ UNCHANGED << envVars, mode, sizeKnown, total_size, supports_ranges,
                    chunk_size, handlers, exitCode, headStatus,
                    taskVars, fileVars, singleVars >>

\* main.rs:272-280: Ok ends the process normally, Err calls exit(1); a panic
\* in download_file unwinds through main.
MainExit ==
    /\ Alive /\ pc \in {"returned", "panicked"}
    /\ exitCode' = IF pc = "panicked" THEN "panic"
                   ELSE IF result.kind = "ok" THEN "success" ELSE "failure"
    /\ UNCHANGED << envVars, pc, mode, sizeKnown, total_size, supports_ranges,
                    chunk_size, handlers, joined, result, headStatus,
                    taskVars, fileVars, singleVars >>

(***************************************************************************)
(* download_single_threaded, main.rs:155-208.                              *)
(***************************************************************************)
\* main.rs:157-164: the GET request and its status.
SingleGet ==
    /\ Alive /\ pc = "single_get"
    /\ gets' = gets + 1
    /\ \/ Return(Err("get", -1, "transport", 0))
       \/ \E code \in GetStatuses :
            IF IsSuccess(code)
            THEN pc' = "single_create" /\ result' = result
            ELSE Return(Err("get", -1, "status", code))
    /\ UNCHANGED << envVars, mode, sizeKnown, total_size, supports_ranges,
                    chunk_size, handlers, joined, exitCode, headStatus,
                    taskVars, fileVars, downloaded, received >>

\* Mutant of CreateTruncated: the file opened without truncation.
CreateKeepingContent(f) == f

\* main.rs:172  File::create: the file is created, or truncated when it exists.
CreateTruncated(f) == << >>

SingleCreate ==
    /\ Alive /\ pc = "single_create"
    /\ \/ /\ fileExists' = TRUE
          /\ file' = CreateTruncated(file)
          /\ filePos' = 0
          /\ pc' = "single_stream"
          /\ result' = result
       \/ /\ Return(Err("create", -1, "io", 0))
          /\ UNCHANGED << fileExists, file, filePos >>
    /\ UNCHANGED << envVars, mode, sizeKnown, total_size, supports_ranges,
                    chunk_size, handlers, joined, exitCode, headStatus,
                    taskVars, lock, progress, singleVars >>

\* main.rs:191-192  stream.next().await and `chunk?`: the body of the whole
\* resource, segment by segment; the end of the body ends the loop.
SingleNext ==
    /\ Alive /\ pc = "single_stream"
    /\ LET got == downloaded
           rem == srcLen - got
       IN  \/ /\ rem = 0
              /\ Return(OkResult)
              /\ received' = received
           \/ /\ rem > 0
              /\ \E len \in SegLens(rem, Len(received)) :
                    received' = Append(received, len)
              /\ pc' = "single_write"
              /\ result' = result
           \/ /\ Return(Err("stream", -1, "read", 0))
              /\ received' = received
    /\ UNCHANGED << envVars, mode, sizeKnown, total_size, supports_ranges,
                    chunk_size, handlers, joined, exitCode, headStatus,
                    taskVars, fileVars, gets, downloaded >>

\* main.rs:193-194  write_all at the cursor, then downloaded += chunk.len().
SingleWrite ==
    /\ Alive /\ pc = "single_write"
    /\ LET len == received[Len(received)]
       IN  \/ /\ file' = WriteAt(file, filePos, len, downloaded)
              /\ filePos' = filePos + len
              /\ downloaded' = downloaded + len
              /\ pc' = "single_stream"
              /\ result' = result
           \/ /\ Return(Err("write", -1, "io", 0))
              /\ UNCHANGED << file, filePos, downloaded >>
    /\ UNCHANGED << envVars, mode, sizeKnown, total_size, supports_ranges,
                    chunk_size, handlers, joined, exitCode, headStatus,
                    taskVars, lock, fileExists, progress, gets, received >>

(***************************************************************************)
(* The spawned task (main.rs:114-136) and download_chunk_with_retry        *)
(* (main.rs:210-256), for chunk w.                                         *)
(***************************************************************************)
StartOf(w) == handlers[w + 1].start
EndOf(w) == handlers[w + 1].end

\* The body the server sends for `Range: bytes=start-end`: that range, or the
\* whole resource when it does not honour the header.
BodyLen(w) == IF honoursRange THEN EndOf(w) - StartOf(w) + 1 ELSE srcLen
BodyAt(w) == IF honoursRange THEN StartOf(w) ELSE 0
RangeAnswers == {IF honoursRange THEN 206 ELSE 200, 503}

\* Mutant of LockAvailable: the file shared without mutual exclusion.
LockAlwaysAvailable == TRUE

\* main.rs:237  file.lock().await completes when no task holds the mutex.
LockAvailable == lock = NoWorker

\* Mutant of GuardDropped: a return that leaves the mutex locked.
GuardKept(w) == w

\* main.rs:242, 246, 250, 255: a return out of download_chunk_with_retry drops
\* the MutexGuard held by task w, which unlocks the mutex.
GuardDropped(w) == NoWorker

\* Mutant of SeekTarget: every task seeks to the start of the file.
SeekToFileStart(start) == 0

\* main.rs:240  SeekFrom::Start(start)
SeekTarget(start) == start

\* Mutant of MayRetry: the guard without its `- 1`.
MayRetryOnceMore(r) == r < max_retries

\* main.rs:121  for retry in 0..max_retries, main.rs:126  retry < max_retries - 1
MayRetry(r) == r < max_retries - 1

\* main.rs:124-132: an attempt returned Err: sleep and go round the loop again,
\* or return the error from the task.
FailAttempt(w, cause, code) ==
    /\ IF MayRetry(retry[w])
       THEN /\ wpc' = [wpc EXCEPT ![w] = "sleep"]
            /\ wdelay' = [wdelay EXCEPT ![w] = BackoffMs(retry[w])]
            /\ UNCHANGED << wres, firstFailed >>
       ELSE /\ wpc' = [wpc EXCEPT ![w] = "done"]
            /\ wres' = [wres EXCEPT ![w] = Err("chunk", w, cause, code)]
            /\ firstFailed' = IF firstFailed = NoWorker THEN w ELSE firstFailed
            /\ wdelay' = wdelay
    /\ sent' = [sent EXCEPT ![w] = 0]
    /\ seg' = [seg EXCEPT ![w] = 0]
    /\ nseg' = [nseg EXCEPT ![w] = 0]

\* main.rs:115-122: an empty range returns Ok at once; otherwise the first
\* attempt sends its request (main.rs:219-224).
WorkerStart(w) ==
    /\ Alive /\ wpc[w] = "init"
    /\ IF StartOf(w) >= total_size
       THEN /\ wpc' = [wpc EXCEPT ![w] = "done"]
            /\ wres' = [wres EXCEPT ![w] = OkResult]
            /\ requests' = requests
       ELSE /\ wpc' = [wpc EXCEPT ![w] = "request"]
            /\ requests' = [requests EXCEPT ![w] = @ + 1]
            /\ wres' = wres
    /\ UNCHANGED << envVars, orchVars, retry, sent, seg, nseg, wdelay,
                    firstFailed, fileVars, singleVars >>

\* main.rs:224-233: the response, or the transport's error.
Response(w) ==
    /\ Alive /\ wpc[w] = "request"
    /\ \/ FailAttempt(w, "network", 0)
       \/ \E code \in RangeAnswers :
            IF RangeStatusAccepted(code)
            THEN /\ wpc' = [wpc EXCEPT ![w] = "lock"]
                 /\ UNCHANGED << sent, seg, nseg, wres, wdelay, firstFailed >>
            ELSE FailAttempt(w, "status", code)
    /\ UNCHANGED << envVars, orchVars, retry, requests, fileVars, singleVars >>

\* main.rs:237
AcquireLock(w) ==
    /\ Alive /\ wpc[w] = "lock"
    /\ LockAvailable
    /\ lock' = w
    /\ wpc' = [wpc EXCEPT ![w] = "seek"]
    /\ UNCHANGED << envVars, orchVars, retry, sent, seg, nseg, wres, requests,
                    wdelay, firstFailed, filePos, fileExists, file, progress,
                    singleVars >>

\* main.rs:240-242: the seek; its error drops the guard and fails the attempt.
Seek(w) ==
    /\ Alive /\ wpc[w] = "seek"
    /\ \/ /\ filePos' = SeekTarget(StartOf(w))
          /\ wpc' = [wpc EXCEPT ![w] = "drain"]
          /\ UNCHANGED << lock, sent, seg, nseg, wres, wdelay, firstFailed >>
       \/ /\ lock' = GuardDropped(w)
          /\ FailAttempt(w, "seek", 0)
          /\ filePos' = filePos
    /\ UNCHANGED << envVars, orchVars, retry, requests,
                    fileExists, file, progress, singleVars >>

\* main.rs:244-246, 255: the next segment of the body, its end (the attempt
\* and the task return Ok, the guard is dropped) or a stream error.
StreamNext(w) ==
    /\ Alive /\ wpc[w] = "drain"
    /\ LET rem == BodyLen(w) - sent[w]
       IN  \/ /\ rem = 0
              /\ lock' = GuardDropped(w)
              /\ wpc' = [wpc EXCEPT ![w] = "done"]
              /\ wres' = [wres EXCEPT ![w] = OkResult]
              /\ sent' = [sent EXCEPT ![w] = 0]
              /\ nseg' = [nseg EXCEPT ![w] = 0]
              /\ UNCHANGED << seg, wdelay, firstFailed >>
           \/ /\ rem > 0
              /\ \E len \in SegLens(rem, nseg[w]) :
                    seg' = [seg EXCEPT ![w] = len]
              /\ nseg' = [nseg EXCEPT ![w] = @ + 1]
              /\ wpc' = [wpc EXCEPT ![w] = "write"]
              /\ UNCHANGED << lock, sent, wres, wdelay, firstFailed >>
           \/ /\ lock' = GuardDropped(w)
              /\ FailAttempt(w, "stream", 0)
    /\ UNCHANGED << envVars, orchVars, retry, requests,
                    filePos, fileExists, file, progress, singleVars >>

\* main.rs:248-252: write_all at the shared cursor, then progress_bar.inc.
\* An Ok from write_all is taken as the bytes being in the file.
WriteSegment(w) ==
    /\ Alive /\ wpc[w] = "write"
    /\ \/ /\ file' = WriteAt(file, filePos, seg[w], BodyAt(w) + sent[w])
          /\ filePos' = filePos + seg[w]
          /\ progress' = progress + seg[w]
          /\ sent' = [sent EXCEPT ![w] = @ + seg[w]]
          /\ seg' = [seg EXCEPT ![w] = 0]
          /\ wpc' = [wpc EXCEPT ![w] = "drain"]
          /\ UNCHANGED << lock, nseg, wres, wdelay, firstFailed >>
       \/ /\ lock' = GuardDropped(w)
          /\ FailAttempt(w, "write", 0)
          /\ UNCHANGED << file, filePos, progress >>
    /\ UNCHANGED << envVars, orchVars, retry, requests, fileExists, singleVars >>

\* main.rs:128-129, then 122 and 219-224: the sleep ends, the next attempt
\* sends its request.
Wake(w) ==
    /\ Alive /\ wpc[w] = "sleep"
    /\ retry' = [retry EXCEPT ![w] = @ + 1]
    /\ requests' = [requests EXCEPT ![w] = @ + 1]
    /\ wdelay' = [wdelay EXCEPT ![w] = 0]
    /\ wpc' = [wpc EXCEPT ![w] = "request"]
    /\ UNCHANGED << envVars, orchVars, sent, seg, nseg, wres, firstFailed,
                    fileVars, singleVars >>

Task(w) ==
    \/ WorkerStart(w)
    \/ Response(w)
    \/ AcquireLock(w)
    \/ Seek(w)
    \/ StreamNext(w)
    \/ WriteSegment(w)
    \/ Wake(w)

(***************************************************************************)
(* Specifications.                                                         *)
(***************************************************************************)
Partitioned ==
    \/ ComputeChunkSize
    \/ OpenFile
    \/ SpawnWorker
    \/ JoinNext
    \/ MainExit
    \/ \E w \in Workers : Task(w)

Next ==
    \/ Probe
    \/ SingleGet
    \/ SingleCreate
    \/ SingleNext
    \/ SingleWrite
    \/ Partitioned

\* The program, from main's call of download_file.
Spec == Init /\ [][Next]_vars

\* The partitioned path (main.rs:81-153, then main's match) on every
\* total_size and num_threads within the bounds.
EngineSpec == EngineInit /\ [][Partitioned]_vars

\* The chunk planner alone (main.rs:81-107) on every total_size and
\* num_threads within the bounds.
PlanNext ==
    \/ ComputeChunkSize
    \/ OpenFile
    \/ SpawnWorker

PlanSpec == PlanInit /\ [][PlanNext]_vars

\* The program under the scheduling the claim about termination assumes: the
\* runtime polls every task that can take a step, and every await (a response,
\* a body segment, a seek, a write, a sleep) completes.  The tokio mutex
\* serves its waiters in order; as a task takes the lock at most 3 times,
\* weak fairness of each task is enough for a waiter to get it.
FairSpec ==
    /\ Spec
    /\ WF_vars(Probe)
    /\ WF_vars(SingleGet) /\ WF_vars(SingleCreate)
    /\ WF_vars(SingleNext) /\ WF_vars(SingleWrite)
    /\ WF_vars(ComputeChunkSize) /\ WF_vars(OpenFile) /\ WF_vars(SpawnWorker)
    /\ WF_vars(JoinNext) /\ WF_vars(MainExit)
    /\ \A w \in 0..(MaxThreads - 1) : WF_vars((w \in Workers) /\ Task(w))

(***************************************************************************)
(* The chunk planner in u64 (main.rs:81, 106, 107).  A u64 is held as four *)
(* 16-bit limbs, most significant first, so that every value of the type   *)
(* and every carry out of it is represented.  An operation gives the       *)
(* wrapped result v and whether the exact result left the type (carry).    *)
(***************************************************************************)
\* A value below 2^31 as a u64 (`as u64` of a u8, or a small literal).
U64Of(k) == << 0, 0, k \div 65536, k % 65536 >>

\* u64::MAX
U64AllOnes == << 65535, 65535, 65535, 65535 >>

\* x + k for 0 <= k < 65536.
U64AddSmall(x, k) ==
    LET s4 == x[4] + k
        s3 == x[3] + (s4 \div 65536)
        s2 == x[2] + (s3 \div 65536)
        s1 == x[1] + (s2 \div 65536)
    IN  [v |-> << s1 % 65536, s2 % 65536, s3 % 65536, s4 % 65536 >>,
         carry |-> s1 \div 65536 > 0]

\* x - 1
U64SubOne(x) ==
    IF x[4] > 0 THEN [v |-> << x[1], x[2], x[3], x[4] - 1 >>, carry |-> FALSE]
    ELSE IF x[3] > 0 THEN [v |-> << x[1], x[2], x[3] - 1, 65535 >>, carry |-> FALSE]
    ELSE IF x[2] > 0 THEN [v |-> << x[1], x[2] - 1, 65535, 65535 >>, carry |-> FALSE]
    ELSE IF x[1] > 0 THEN [v |-> << x[1] - 1, 65535, 65535, 65535 >>, carry |-> FALSE]
    ELSE [v |-> U64AllOnes, carry |-> TRUE]

\* k * x for 0 <= k < 256.
U64MulSmall(k, x) ==
    LET p4 == x[4] * k
        p3 == x[3] * k + (p4 \div 65536)
        p2 == x[2] * k + (p3 \div 65536)
        p1 == x[1] * k + (p2 \div 65536)
    IN  [v |-> << p1 % 65536, p2 % 65536, p3 % 65536, p4 % 65536 >>,
         carry |-> p1 \div 65536 > 0]

\* x / n for 0 < n < 256.
U64DivSmall(x, n) ==
    LET t1 == x[1]
        t2 == (t1 % n) * 65536 + x[2]
        t3 == (t2 % n) * 65536 + x[3]
        t4 == (t3 % n) * 65536 + x[4]
    IN  << t1 \div n, t2 \div n, t3 \div n, t4 \div n >>

U64Less(x, y) ==
    \E i \in 1..4 : x[i] < y[i] /\ \A j \in 1..(i - 1) : x[j] = y[j]

U64Min(x, y) == IF U64Less(y, x) THEN y ELSE x

\* What an arithmetic operation whose exact result leaves u64 does: a build
\* with overflow checks panics, one without keeps the wrapped value.
OverflowOutcomes(carry) == IF carry THEN {"panic", "wrap"} ELSE {"exact"}

\* The Content-Length values the u64 planner is run on: the smallest ones, the
\* threshold, and the largest ones.
MaxSmallSize == 1
MaxBelowTop == 1

RECURSIVE U64DownFrom(_, _)
U64DownFrom(x, k) == IF k = 0 THEN {x} ELSE {x} \cup U64DownFrom(U64SubOne(x).v, k - 1)

U64Sizes ==
    { U64Of(k) : k \in 0..MaxSmallSize }
        \cup { U64Of(MinPartitionSize) }
        \cup U64DownFrom(U64AllOnes, MaxBelowTop)

\* main.rs:26-28: threads is a u8; the planner is run on every count but 0.
U8Max == 255

U64PlanInit ==
    /\ InitAt("plan", {0}, 1..U8Max)
    /\ ~preExists
    /\ hdrLen = TRUE
    /\ hdrRanges = TRUE
    /\ honoursRange = TRUE
    /\ mode = "partitioned"
    /\ sizeKnown = TRUE
    /\ total_size \in U64Sizes
    /\ supports_ranges = TRUE

\* main.rs:81  (total_size + num_threads as u64 - 1) / num_threads as u64,
\* evaluated left to right.
U64ComputeChunkSize ==
    /\ Alive /\ pc = "plan" /\ num_threads > 0
    /\ LET sum == U64AddSmall(total_size, num_threads)
       IN  \E o1 \in OverflowOutcomes(sum.carry) :
             IF o1 = "panic"
             THEN pc' = "panicked" /\ chunk_size' = chunk_size
             ELSE LET dec == U64SubOne(sum.v)
                  IN  \E o2 \in OverflowOutcomes(dec.carry) :
                        IF o2 = "panic"
                        THEN pc' = "panicked" /\ chunk_size' = chunk_size
                        ELSE /\ pc' = "open"
                             /\ chunk_size' = U64DivSmall(dec.v, num_threads)
    /\ UNCHANGED << envVars, mode, sizeKnown, total_size, supports_ranges,
                    handlers, joined, result, exitCode, headStatus,
                    taskVars, fileVars, singleVars >>

\* main.rs:105-139, one iteration: start = i as u64 * chunk_size,
\* end = ((i + 1) as u64 * chunk_size).min(total_size) - 1, then the spawn.
U64SpawnWorker ==
    /\ Alive /\ pc = "spawn"
    /\ LET i == Len(handlers)
           start == U64MulSmall(i, chunk_size)
           upto == U64MulSmall(i + 1, chunk_size)
           last == U64SubOne(U64Min(upto.v, total_size))
       IN  \E o1 \in OverflowOutcomes(start.carry),
              o2 \in OverflowOutcomes(upto.carry),
              o3 \in OverflowOutcomes(last.carry) :
             IF "panic" \in {o1, o2, o3}
             THEN /\ pc' = "panicked"
                  /\ UNCHANGED << handlers, wpc >>
             ELSE /\ handlers' = Append(handlers, [start |-> start.v, end |-> last.v])
                  /\ wpc' = [wpc EXCEPT ![i] = "init"]
                  /\ pc' = IF i + 1 = num_threads THEN "join" ELSE "spawn"
    /\ UNCHANGED << envVars, mode, sizeKnown, total_size, supports_ranges,
                    chunk_size, joined, result, exitCode, headStatus,
                    retry, sent, seg, nseg, wres, requests, wdelay, firstFailed,
                    fileVars, singleVars >>

U64PlanNext ==
    \/ U64ComputeChunkSize
    \/ OpenFile
    \/ U64SpawnWorker

\* The chunk planner in u64 on the sizes of U64Sizes and every thread count
\* of 1..255.
U64PlanSpec == U64PlanInit /\ [][U64PlanNext]_vars

(***************************************************************************)
(* Properties.                                                             *)
(***************************************************************************)
RECURSIVE SumSeq(_)
SumSeq(q) == IF Len(q) = 0 THEN 0 ELSE Head(q) + SumSeq(Tail(q))

Front(q) == SubSeq(q, 1, Len(q) - 1)

\* The first len bytes of the source, as a file.
SourcePrefix(len) == IF len = 0 THEN << >> ELSE << SrcBytes(0, len, 0) >>

\* f holds, at every offset of [a, b), the source byte of that offset.
HoldsSource(f, a, b) ==
    a >= b \/ Slice(f, a, b) = << SrcBytes(a, b - a, a) >>

Spawned(w) == w < Len(handlers)
InCriticalSection(w) == wpc[w] \in {"seek", "drain", "write"}

\* C1 (Spec): when download_file returns Ok in partitioned mode and the server
\* answered every range request with exactly that range, every offset of
\* [0, total_size) of the destination holds the source byte of that offset,
\* whatever the interleaving and whatever attempts failed and were retried.
C1_ByteIdentical ==
    (mode = "partitioned" /\ result.kind = "ok" /\ honoursRange)
        => HoldsSource(file, 0, total_size)

\* C1 witness: a successful partitioned download of 1 MiB + 1 bytes over an
\* existing file, in which the first chunk needed all three attempts and the
\* last chunk succeeded at once.
C1_Witness ==
    /\ mode = "partitioned" /\ result.kind = "ok" /\ honoursRange
    /\ total_size = 1048577 /\ preExists
    /\ num_threads = 2 /\ retry[0] = 2 /\ retry[1] = 0

\* C2 (Spec): the mode is a function of (size, range support, worker count):
\* no size -> single stream; size without range support -> single stream;
\* size below 1048576 -> single stream; size of at least 1048576 with range
\* support and two or more workers -> partitioned, and the spawn loop spawns
\* exactly num_threads tasks.
C2_ModeDecision ==
    /\ mode # "undecided" =>
         /\ ~hdrLen => mode = "single"
         /\ (hdrLen /\ ~hdrRanges) => mode = "single"
         /\ (hdrLen /\ srcLen < 1048576) => mode = "single"
         /\ (hdrLen /\ srcLen >= 1048576 /\ hdrRanges /\ num_threads >= 2)
                => mode = "partitioned"
    /\ mode = "partitioned" /\ num_threads >= 2 =>
         /\ Len(handlers) <= num_threads
         /\ \A w \in Workers : (wpc[w] # "unspawned") <=> Spawned(w)
         /\ (pc = "join" \/ (pc = "returned" /\ result.stage # "open"))
                => Len(handlers) = num_threads
    /\ mode = "single" => (handlers = << >> /\ \A w \in Workers : wpc[w] = "unspawned")

\* C2 witness: 1 MiB exactly, range support, two workers: partitioned mode
\* with both tasks spawned.
C2_Witness ==
    /\ srcLen = 1048576 /\ hdrLen /\ hdrRanges /\ num_threads = 2
    /\ mode = "partitioned" /\ pc = "join" /\ Len(handlers) = 2

\* C3 (Spec), the claim as stated: with the size known and a worker count of
\* 0 or 1, download_file takes the single-stream fallback and never reaches the
\* chunk-size computation or the spawn loop.
C3_FewWorkersFallBack ==
    (mode # "undecided" /\ sizeKnown /\ num_threads <= 1)
        => /\ mode = "single"
           /\ pc \notin {"plan", "open", "spawn", "join", "panicked"}
           /\ handlers = << >>

\* C4 (PlanSpec): the plan of total_size and num_threads > 0 has num_threads
\* entries; its non-empty ranges (start < total_size) are the first ones, in
\* ascending order, each starting where the one before ended, the first at 0
\* and the last ending at total_size - 1; every offset of [0, total_size)
\* lies in exactly one of them.
NonEmpty == { i \in 1..Len(handlers) : handlers[i].start < total_size }

C4_PlanCoversExactly ==
    pc = "join" =>
        /\ Len(handlers) = num_threads
        /\ \A i \in NonEmpty :
             /\ handlers[i].start <= handlers[i].end
             /\ IF i = 1 THEN handlers[i].start = 0
                ELSE (i - 1) \in NonEmpty
                     /\ handlers[i].start = handlers[i - 1].end + 1
             /\ (i + 1) \notin NonEmpty => handlers[i].end = total_size - 1
        /\ \A o \in 0..(total_size - 1) :
             Cardinality({ i \in NonEmpty :
                            handlers[i].start <= o /\ o <= handlers[i].end }) = 1

\* C4 witness: 12 bytes for 5 workers (chunk size 3): four ranges of three
\* bytes and a fifth, empty one.
C4_Witness ==
    /\ pc = "join" /\ total_size = 12 /\ num_threads = 5
    /\ Cardinality(NonEmpty) = 4
    /\ handlers[4] = [start |-> 9, end |-> 11]

C6_ThreeAttempts ==
    /\ \A w \in Workers :
         /\ requests[w] <= 3
         /\ retry[w] <= 2
         /\ wres[w].kind = "err" => (requests[w] = 3 /\ wpc[w] = "done")
         /\ (wres[w].kind = "ok" /\ honoursRange)
                => HoldsSource(file, StartOf(w), EndOf(w) + 1)
         /\ (/\ pc = "returned"
             /\ wres[w].kind = "err"
             /\ \A v \in 0..(w - 1) : wres[v].kind = "ok")
                => result = Err("thread", w, wres[w].cause, wres[w].code)
    /\ (mode = "partitioned" /\ result.kind = "ok")
            => \A w \in Workers : wres[w].kind = "ok"
    /\ result.stage = "thread"
            => (wres[result.idx].kind = "err" /\ requests[result.idx] = 3)

\* C6 witness: chunk 0 failed twice and succeeded on its third attempt, chunk 1
\* failed three times, and download_file returned the failure of chunk 1.
C6_Witness ==
    /\ num_threads = 2 /\ honoursRange
    /\ wres[0].kind = "ok" /\ requests[0] = 3
    /\ wres[1].kind = "err" /\ requests[1] = 3
    /\ result.stage = "thread" /\ result.idx = 1

\* C7 (Spec), the claim as stated: in partitioned mode the join loop returns
\* Ok exactly when every spawned task returned Ok, an error when a task
\* returned one, and the process ends in failure exactly when download_file
\* returned an error.
C7_NoPartialSuccess ==
    /\ (mode = "partitioned" /\ pc = "returned" /\ result.stage # "open")
            => /\ (result.kind = "ok") <=> (\A w \in Workers : wres[w].kind = "ok")
               /\ (\E w \in Workers : wres[w].kind = "err") => result.kind = "err"
    /\ exitCode # "running"
            => ((exitCode # "success") <=> (result.kind = "err"))

\* C7, what holds of the runs in which download_file returns (checked
\* alongside the claim, which num_threads = 0 refutes).
C7_HoldsWhenReturned ==
    pc = "returned" =>
        /\ (mode = "partitioned" /\ result.stage # "open")
            => /\ (result.kind = "ok") <=> (\A w \in Workers : wres[w].kind = "ok")
               /\ (\E w \in Workers : wres[w].kind = "err") => result.kind = "err"
        /\ exitCode # "running"
            => ((exitCode = "failure") <=> (result.kind = "err"))

\* C8 (Spec): a HEAD response whose status is not 200..299 makes download_file
\* return at once an error carrying that status: no GET and no range request
\* was issued, no task spawned, and the destination is as it was before.
C8_ProbeFailureIsImmediate ==
    (headStatus # 0 /\ headStatus \notin 200..299)
        => /\ pc = "returned"
           /\ result = Err("probe", -1, "status", headStatus)
           /\ gets = 0
           /\ \A w \in Workers : requests[w] = 0 /\ wpc[w] = "unspawned"
           /\ handlers = << >>
           /\ mode = "undecided"
           /\ fileExists = preExists
           /\ file = OldContent(preLen)

\* C8 witness: the probe was answered 404 while a destination file existed,
\* and the process has ended in failure.
C8_Witness ==
    /\ headStatus = 404 /\ preExists /\ exitCode = "failure"
    /\ result.code = 404

\* C9 (Spec): in the single-stream fallback the file is created empty and
\* from then on holds the segments written so far one after the other from
\* offset 0 (the source's first bytes, nothing else); a segment is written
\* before the next is awaited; on Ok the file's length is the number of bytes
\* streamed, with or without a Content-Length.
SingleCreated ==
    /\ mode = "single"
    /\ \/ pc \in {"single_stream", "single_write"}
       \/ pc = "returned" /\ (result.kind = "ok" \/ result.stage \in {"stream", "write"})

SingleWritten ==
    IF pc = "single_write" \/ result.stage = "write" THEN Front(received) ELSE received

C9_FallbackFileIsConcatenation ==
    SingleCreated =>
        /\ file = SourcePrefix(SumSeq(SingleWritten))
        /\ downloaded = SumSeq(SingleWritten)
        /\ filePos = FileLen(file)
        /\ result.kind = "ok"
              => (FileLen(file) = SumSeq(received) /\ FileLen(file) = srcLen)

\* C9 witness: a resource of 1 MiB + 1 bytes served without Content-Length,
\* streamed in two segments over an existing (longer) file, with success.
C9_Witness ==
    /\ mode = "single" /\ ~hdrLen /\ preExists /\ srcLen = 1048577
    /\ result.kind = "ok" /\ Len(received) = 2
    /\ FileLen(file) = 1048577

\* C10 (Spec): from its seek to the end of its draining loop a task holds the
\* lock and no other task is between lock and release, so the shared cursor
\* is where this task left it: each segment is written at
\* start + (bytes of the attempt's earlier segments).
C10_SeekDrainCriticalSection ==
    \A w \in Workers :
        /\ InCriticalSection(w)
              => (lock = w /\ \A v \in Workers \ {w} : ~InCriticalSection(v))
        /\ wpc[w] \in {"drain", "write"} => filePos = StartOf(w) + sent[w]

\* C10 witness: task 1 is about to write the second segment of its body while
\* task 0 waits for the lock.
C10_Witness ==
    /\ num_threads = 2
    /\ wpc[1] = "write" /\ nseg[1] = 2 /\ sent[1] > 0
    /\ wpc[0] = "lock"

\* C11 (Spec), the claim as stated: at none of its suspension points (awaiting
\* the response, a body segment, a file write, or the end of a backoff sleep)
\* does a task hold the file lock.
C11_NoLockAtAnySuspension ==
    \A w \in Workers :
        wpc[w] \in {"request", "drain", "write", "sleep"} => lock # w

\* C11, amended: a task does not hold the lock while it awaits the response,
\* while it sleeps between attempts, before its first attempt and after it
\* returned; it does hold it while it awaits the seek, a body segment and a
\* file write.
C11_LockHeldExactlyFromSeekThroughDrain ==
    \A w \in Workers :
        /\ wpc[w] \in {"unspawned", "init", "request", "lock", "sleep", "done"}
              => lock # w
        /\ wpc[w] \in {"seek", "drain", "write"} => lock = w

\* C11 witness: task 0 sleeps after a failed attempt that took the lock and
\* wrote part of its range, while task 1 awaits a body segment with the lock.
C11_Witness ==
    /\ num_threads = 2
    /\ wpc[0] = "sleep" /\ wres[0].kind = "none"
    /\ honoursRange /\ HoldsSource(file, 0, 1)
    /\ wpc[1] = "drain" /\ lock = 1

\* C12 (Spec), the claim as stated: when several tasks have returned an error
\* and download_file reports a task's failure, it is the failure of the task
\* that returned its error first in time.
Failed == { w \in Workers : wres[w].kind = "err" }

C12_ReportsFirstInCompletionOrder ==
    (result.stage = "thread" /\ Cardinality(Failed) >= 2)
        => result.idx = firstFailed

\* C12, amended: the failure download_file reports is that of the failed task
\* with the lowest chunk index (every task before it returned Ok), whichever
\* task failed first in time.
C12_ReportsLowestFailedIndex ==
    result.stage = "thread"
        => /\ result.idx \in Failed
           /\ \A v \in 0..(result.idx - 1) : wres[v].kind = "ok"
           /\ result.cause = wres[result.idx].cause
           /\ result.code = wres[result.idx].code

\* C12 witness: task 1 failed first, task 0 failed afterwards, and the failure
\* reported is task 0's.
C12_Witness ==
    /\ num_threads = 2 /\ Cardinality(Failed) = 2
    /\ firstFailed = 1
    /\ result.stage = "thread" /\ result.idx = 0

\* C13 (Spec), the claim as stated: when download_file returns the failure of
\* a task, and when the process then ends in failure, every task has already
\* returned (Ok or its own error); none is still running.
C13_FailureOnlyAfterAllAwaited ==
    (result.stage = "thread" /\ (pc = "returned" \/ exitCode = "failure"))
        => \A w \in Workers : wpc[w] = "done"

\* C14 (Spec): every step of every task follows the retry state machine.
\*  - An attempt starts (a request is sent) only from the task's start, as its
\*    first, or from the sleep that followed its n-th failed attempt, n = 1 or
\*    2, a sleep of n * 1000 ms.
\*  - An attempt ends by returning Ok from the task, or, whatever failed (the
\*    transport or the status while the response is awaited, the seek, the
\*    stream, the write), by going to sleep for n * 1000 ms when it was the
\*    n-th attempt with n < 3, or by returning the error, with no sleep, when
\*    it was the 3rd.
\*  - A task that returned does nothing more.
InAttempt == {"request", "lock", "seek", "drain", "write"}

RetryStep(w) ==
    /\ requests'[w] # requests[w]
          => /\ requests'[w] = requests[w] + 1
             /\ wpc'[w] = "request"
             /\ \/ wpc[w] = "init" /\ requests[w] = 0
                \/ /\ wpc[w] = "sleep"
                   /\ requests[w] \in {1, 2}
                   /\ wdelay[w] = 1000 * requests[w]
    /\ (wpc[w] \in InAttempt /\ wpc'[w] \notin InAttempt)
          => \/ wpc[w] = "drain" /\ wpc'[w] = "done" /\ wres'[w] = OkResult
             \/ /\ requests[w] < 3
                /\ wpc'[w] = "sleep"
                /\ wdelay'[w] = 1000 * requests[w]
                /\ wres'[w] = NoResult
             \/ /\ requests[w] = 3
                /\ wpc'[w] = "done"
                /\ wres'[w].kind = "err"
                /\ wdelay'[w] = 0
    /\ (wpc[w] = "sleep" /\ wpc'[w] # "sleep") => wpc'[w] = "request"
    /\ wpc[w] = "done"
          => (wpc'[w] = "done" /\ wres'[w] = wres[w] /\ requests'[w] = requests[w])

C14_RetryStateMachine == [][\A w \in Workers : RetryStep(w)]_vars

\* C14 witness: task 0 sleeps 2000 ms after its second failed attempt, an
\* attempt that had written the first bytes of its range before it failed.
C14_Witness ==
    /\ num_threads = 2 /\ honoursRange /\ ~preExists
    /\ wpc[0] = "sleep" /\ requests[0] = 2 /\ wdelay[0] = 2000
    /\ HoldsSource(file, 0, 1)

\* C15 (Spec), the claim as stated: whatever accepted response a task drains,
\* each segment it writes lies inside its own range [start, end], and the file
\* never grows beyond total_size.
C15_WritesStayInOwnRange ==
    /\ \A w \in Workers :
         wpc[w] = "write"
            => (StartOf(w) <= filePos /\ filePos + seg[w] - 1 <= EndOf(w))
    /\ mode = "partitioned" => FileLen(file) <= Max(total_size, preLen)

\* C16 (Spec): the single-stream fallback sends one GET and never another; the
\* tasks of the partitioned path never run; an error of the request, of its
\* status, of the file's creation, of the stream or of a write is returned at
\* once, and from then on no request is sent and the file is not written.
\* An error of the request or of its status leaves the destination untouched.
SingleFailed == mode = "single" /\ result.kind = "err"

SingleOnce ==
    mode = "single" =>
        /\ gets = IF pc = "single_get" THEN 0 ELSE 1
        /\ \A w \in Workers : requests[w] = 0
        /\ result.kind = "err"
              => /\ pc = "returned"
                 /\ result.stage \in {"get", "create", "stream", "write"}
        /\ result.stage = "get"
              => (fileExists = preExists /\ file = OldContent(preLen))

C16_SingleStreamNoRecovery ==
    [][/\ SingleOnce'
       /\ SingleFailed => (gets' = gets /\ file' = file /\ filePos' = filePos
                           /\ downloaded' = downloaded /\ result' = result)]_vars

\* C16 witness: the fallback wrote the first segment, the write of the second
\* failed, and the process ended in failure after its single GET.
C16_Witness ==
    /\ mode = "single" /\ result.stage = "write" /\ exitCode = "failure"
    /\ gets = 1 /\ Len(received) = 2
    /\ FileLen(file) = received[1]

\* C17 (U64PlanSpec), the claim as stated: for every total_size of the type
\* and 1 to 255 workers, no operation of the planner leaves u64 (the build
\* with overflow checks does not panic, and in the other build nothing
\* wraps: every end stays below total_size), and
\* chunk_size * num_threads >= total_size.
U64Covers ==
    LET prod == U64MulSmall(num_threads, chunk_size)
    IN  prod.carry \/ ~U64Less(prod.v, total_size)

C17_NoWrapInU64 ==
    /\ pc # "panicked"
    /\ pc \in {"open", "spawn", "join"} => U64Covers
    /\ \A i \in 1..Len(handlers) : U64Less(handlers[i].end, total_size)

\* C18 (Spec), the claim as stated: when download_file returns Ok in
\* partitioned mode (the server having answered every range request with that
\* range), the destination is total_size bytes long and every byte of it
\* came from the source, whatever the destination held before.
C18_NoStaleBytesAfterSuccess ==
    (mode = "partitioned" /\ result.kind = "ok" /\ honoursRange)
        => /\ FileLen(file) = total_size
           /\ \A i \in 1..Len(file) : file[i].kind = "src"

\* C19 (FairSpec), the claim as stated: the lock is held only by a task
\* between its lock and its return, so it is free again after every exit of
\* an attempt; under fair scheduling the partitioned path leads to
\* download_file returning, and every spawned task leads to that task having
\* returned Ok or its error, after at most 3 attempts.
LockReleasedOnExit ==
    /\ lock # NoWorker => (lock \in Workers /\ InCriticalSection(lock))
    /\ \A w \in Workers : wpc[w] \in {"sleep", "done"} => lock # w

Running(w) == (w \in Workers) /\ wpc[w] \notin {"unspawned", "done"}
Terminated(w) ==
    (w \in Workers) /\ wpc[w] = "done" /\ wres[w].kind \in {"ok", "err"}
        /\ requests[w] <= 3

C19_EveryTaskTerminates ==
    /\ []LockReleasedOnExit
    /\ (mode = "partitioned") ~> (pc = "returned")
    /\ \A w \in 0..(MaxThreads - 1) : Running(w) ~> Terminated(w)

\* C20 (Spec), the claim as stated: in partitioned mode (the server answering
\* every range request with that range) no step decreases the progress
\* counter, the counter never exceeds total_size, also when a failed attempt
\* that wrote part of its range is retried, and it equals total_size when
\* download_file returns Ok.
ProgressWithinTotal ==
    (mode = "partitioned" /\ honoursRange)
        => /\ progress <= total_size
           /\ result.kind = "ok" => progress = total_size

C20_ProgressBounded == [][progress' >= progress /\ ProgressWithinTotal']_vars
====
